---- MODULE Spec2Model ----
(***************************************************************************)
(* Model of the language-tutor backend: the HTTP endpoints of              *)
(* src/src/api/words.py and the dialogue service of                        *)
(* src/src/services/llm_service.py.                                        *)
(*                                                                         *)
(* The word store (db.words), the session registry                         *)
(* (services.user_session_service), run_dialogue_turn                      *)
(* (services.dialogue_service) and suggest_new_words_for_user              *)
(* (services.words_service) are imported by the two files but their code   *)
(* is not part of the sources; they are modelled from the specification.   *)
(***************************************************************************)
EXTENDS Integers, Sequences, FiniteSets, TLC

VARIABLES
    store,      \* the word store: a set of Word records, ids unique
    next_id,    \* the next id the store generates
    last,       \* the last words request together with its HTTP response
    created,    \* observer: [id, user_id] of every successful POST /words
    deleted,    \* observer: ids of every successful DELETE /words/{id}
    nw_last,    \* the last GET /new-words request with its response
    sessions,   \* the session registry: user id -> DialogueSession
    task,       \* the request-handling tasks of POST /dialogue
    running,    \* the task the event loop is executing ("none": loop is free)
    nturns,     \* number of dialogue turns started so far
    agents_made \* observer: successful create_dialogue_agent calls per user

vars == <<store, next_id, last, created, deleted, nw_last,
          sessions, task, running, nturns, agents_made>>

wordVars == <<store, next_id, last, created, deleted>>
dialogueVars == <<sessions, task, running, nturns, agents_made>>

----------------------------------------------------------------------------
(* Bounds and input domains *)

MaxWords == 2      \* ids the store generates
MaxSuggest == 2    \* length of a suggestion's new_words
MaxTurns == 3      \* dialogue turns started

Users == {"u1", "u2"}
WordIds == 1..MaxWords
WordTexts == {"chat"}
Translations == {"cat", "dog"}
Examples == {"Le chat dort."}
SuggestedWords == {"lait", "pain"}
Usages == {[translation |-> "milk", fr |-> "Je bois du lait."],
           [translation |-> "bread", fr |-> "Je mange du pain."]}

----------------------------------------------------------------------------
(* The word store (db.words) *)

\* get_user_words(user_id): the words owned by user_id
get_user_words(s, user_id) == {w \in s : w.user_id = user_id}

\* create_word(user_id, word): the stored Word, with a generated id
create_word(id, user_id, word) ==
    [id |-> id, user_id |-> user_id, word |-> word.word,
     translation |-> word.translation, example |-> word.example]

\* update_word(word_id, updates): the store after the update, keyed by word id
update_word(s, word_id, updates) ==
    {IF w.id = word_id THEN [w EXCEPT !.translation = updates] ELSE w : w \in s}

\* delete_word(word_id): the store after the delete
delete_word(s, word_id) == {w \in s : w.id # word_id}

\* the word with this id, as a set of at most one element
by_id(s, word_id) == {w \in s : w.id = word_id}

----------------------------------------------------------------------------
(* Outcomes of a handler body: a returned value, an HTTPException with a   *)
(* status code, or any other exception.                                    *)

Return(body, s) ==
    [kind |-> "return", status |-> 200, body |-> body, store |-> s, raised |-> FALSE]
HTTPException(code, s) ==
    [kind |-> "http", status |-> code, body |-> {}, store |-> s, raised |-> FALSE]
\* an exception raised by a store call; the call has had no effect
Exception(s) ==
    [kind |-> "exc", status |-> 0, body |-> {}, store |-> s, raised |-> TRUE]

\* except Exception as e: raise HTTPException(status_code=500, ...)
\* (HTTPException is itself an Exception, so without a preceding
\* "except HTTPException: raise" it is rewrapped too)
except_exception(o) ==
    IF o.kind = "return" THEN o
    ELSE [HTTPException(500, o.store) EXCEPT !.raised = o.raised]

\* except HTTPException: raise / except Exception as e: raise HTTPException(500)
except_http_reraise(o) ==
    IF o.kind = "http" THEN o ELSE except_exception(o)

----------------------------------------------------------------------------
(* GET /words/{user_id} *)

get_user_words_endpoint(s, user_id, caller, raises) ==
    IF caller # user_id THEN HTTPException(403, s)
    ELSE except_exception(
           IF raises THEN Exception(s)
           ELSE Return(get_user_words(s, user_id), s))

(* POST /words *)

create_word_endpoint(s, id, word, caller, raises) ==
    IF caller # word.user_id THEN HTTPException(403, s)
    ELSE except_exception(
           IF raises THEN Exception(s)
           ELSE LET new_word == create_word(id, word.user_id, word)
                IN  Return({new_word}, s \cup {new_word}))

(* PUT /words/{word_id} *)

\* variant: the ownership comparison after the update is left out
update_word_no_owner_check(s, word_id, updates, caller, raises) ==
    IF raises THEN Exception(s)
    ELSE LET s2 == update_word(s, word_id, updates)
             updated_word == by_id(s2, word_id)
         IN  IF updated_word = {} THEN HTTPException(404, s2)
             ELSE Return(updated_word, s2)

update_word_body(s, word_id, updates, caller, raises) ==
    IF raises THEN Exception(s)
    ELSE LET s2 == update_word(s, word_id, updates)
             updated_word == by_id(s2, word_id)
         IN  IF updated_word = {} THEN HTTPException(404, s2)
             ELSE IF \E w \in updated_word : w.user_id # caller
                  THEN HTTPException(403, s2)
                  ELSE Return(updated_word, s2)

update_word_endpoint(s, word_id, updates, caller, raises) ==
    except_http_reraise(update_word_body(s, word_id, updates, caller, raises))

(* DELETE /words/{word_id} *)

\* variant: a word that is not among the caller's words is not reported as 404
delete_word_no_lookup_404(s, word_id, caller, raises_get, raises_delete) ==
    IF raises_get THEN Exception(s)
    ELSE IF raises_delete THEN Exception(s)
    ELSE Return({}, delete_word(s, word_id))

delete_word_body(s, word_id, caller, raises_get, raises_delete) ==
    IF raises_get THEN Exception(s)
    ELSE LET words == get_user_words(s, caller)
             word_to_delete == by_id(words, word_id)
         IN  IF word_to_delete = {} THEN HTTPException(404, s)
             ELSE IF raises_delete THEN Exception(s)
             ELSE LET success == by_id(s, word_id) # {}
                  IN  IF ~success THEN HTTPException(404, s)
                      ELSE Return({}, delete_word(s, word_id))

\* variant: the "except HTTPException: raise" clause is missing
delete_no_reraise(o) == except_exception(o)

\* the except clauses of delete_word_endpoint
delete_word_handlers(o) == except_http_reraise(o)

delete_word_endpoint(s, word_id, caller, raises_get, raises_delete) ==
    delete_word_handlers(
        delete_word_body(s, word_id, caller, raises_get, raises_delete))

----------------------------------------------------------------------------
(* The requests as actions *)

Request(op, caller, user_id, word_id, o) ==
    [op |-> op, caller |-> caller, user_id |-> user_id, word_id |-> word_id,
     raised |-> o.raised, status |-> o.status, body |-> o.body]

GetUserWords ==
    \E caller \in Users, user_id \in Users, raises \in BOOLEAN :
        LET o == get_user_words_endpoint(store, user_id, caller, raises)
        IN  /\ last' = Request("GET", caller, user_id, 0, o)
            /\ UNCHANGED <<store, next_id, created, deleted>>

CreateWord ==
    \E caller \in Users, user_id \in Users, w \in WordTexts,
       t \in Translations, e \in Examples, raises \in BOOLEAN :
        LET word == [user_id |-> user_id, word |-> w, translation |-> t,
                     example |-> e]
            o == create_word_endpoint(store, next_id, word, caller, raises)
        IN  /\ next_id <= MaxWords
            /\ last' = Request("POST", caller, user_id, 0, o)
            /\ store' = o.store
            /\ next_id' = IF o.kind = "return" THEN next_id + 1 ELSE next_id
            /\ created' = IF o.kind = "return"
                          THEN created \cup {[id |-> w2.id, user_id |-> caller] : w2 \in o.body}
                          ELSE created
            /\ UNCHANGED deleted

UpdateWord ==
    \E caller \in Users, word_id \in WordIds, updates \in Translations,
       raises \in BOOLEAN :
        LET o == update_word_endpoint(store, word_id, updates, caller, raises)
        IN  /\ last' = Request("PUT", caller, "", word_id, o)
            /\ store' = o.store
            /\ UNCHANGED <<next_id, created, deleted>>

DeleteWord ==
    \E caller \in Users, word_id \in WordIds,
       raises_get \in BOOLEAN, raises_delete \in BOOLEAN :
        LET o == delete_word_endpoint(store, word_id, caller, raises_get, raises_delete)
        IN  /\ last' = Request("DELETE", caller, "", word_id, o)
            /\ store' = o.store
            /\ deleted' = IF o.kind = "return" THEN deleted \cup {word_id} ELSE deleted
            /\ UNCHANGED <<next_id, created>>

NoRequest ==
    [op |-> "none", caller |-> "", user_id |-> "", word_id |-> 0,
     raised |-> FALSE, status |-> 0, body |-> {}]

InitWords ==
    /\ store = {}
    /\ next_id = 1
    /\ last = NoRequest
    /\ created = {}
    /\ deleted = {}

NextWords ==
    \/ GetUserWords /\ UNCHANGED <<nw_last, dialogueVars>>
    \/ CreateWord /\ UNCHANGED <<nw_last, dialogueVars>>
    \/ UpdateWord /\ UNCHANGED <<nw_last, dialogueVars>>
    \/ DeleteWord /\ UNCHANGED <<nw_last, dialogueVars>>

----------------------------------------------------------------------------
(* GET /new-words/{user_id} *)

\* the loop over word_suggestion.new_words, from index i on
RECURSIVE new_word_objs(_, _, _, _)
new_word_objs(new_words, usages, user_id, i) ==
    IF i > Len(new_words) THEN <<>>
    ELSE LET word == new_words[i]
             rest == new_word_objs(new_words, usages, user_id, i + 1)
         IN  IF word \in DOMAIN usages      \* usage = usages.get(word); if usage:
             THEN <<[id |-> "new_" \o word,
                     user_id |-> user_id,
                     word |-> word,
                     translation |-> usages[word].translation,
                     example |-> usages[word].fr]>> \o rest
             ELSE rest

\* variant: the entries are not filtered by "if usage"
new_words_unfiltered(user_id, caller, sugg) ==
    IF caller # user_id THEN [status |-> 403, body |-> <<>>]
    ELSE IF sugg.kind = "raises" THEN [status |-> 500, body |-> <<>>]
    ELSE IF sugg.kind = "ok"
         THEN [status |-> 200,
               body |-> [i \in 1..Len(sugg.new_words) |->
                           [id |-> "new_" \o sugg.new_words[i],
                            user_id |-> user_id,
                            word |-> sugg.new_words[i],
                            translation |-> "",
                            example |-> ""]]]
         ELSE [status |-> 200, body |-> <<>>]

\* sugg is what "await suggest_new_words_for_user(user_id)" yields: it raises,
\* it returns a falsy value, or it returns a WordSuggestion
get_new_words_endpoint(user_id, caller, sugg) ==
    IF caller # user_id THEN [status |-> 403, body |-> <<>>]
    ELSE IF sugg.kind = "raises" THEN [status |-> 500, body |-> <<>>]
    ELSE IF sugg.kind = "ok"
         THEN [status |-> 200,
               body |-> new_word_objs(sugg.new_words, sugg.usages, user_id, 1)]
         ELSE [status |-> 200, body |-> <<>>]

NoSuggestion(kind) == [kind |-> kind, new_words |-> <<>>, usages |-> << >>]

Suggestions ==
    {NoSuggestion("raises"), NoSuggestion("none")} \cup
    {[kind |-> "ok", new_words |-> nw, usages |-> us] :
        nw \in UNION {[1..k -> SuggestedWords] : k \in 0..MaxSuggest},
        us \in UNION {[D -> Usages] : D \in SUBSET SuggestedWords}}

GetNewWords ==
    \E caller \in Users, user_id \in Users, sugg \in Suggestions :
        LET called == IF caller = user_id THEN sugg ELSE NoSuggestion("uncalled")
            o == get_new_words_endpoint(user_id, caller, called)
        IN  nw_last' = [caller |-> caller, user_id |-> user_id, sugg |-> called,
                        status |-> o.status, body |-> o.body]

InitNewWords ==
    nw_last = [caller |-> "", user_id |-> "", sugg |-> NoSuggestion("uncalled"),
               status |-> 0, body |-> <<>>]

NextNewWords == GetNewWords /\ UNCHANGED <<wordVars, dialogueVars>>

\* the suggested words that have a usage, in the order of new_words
with_usage(sugg) == SelectSeq(sugg.new_words, LAMBDA w : w \in DOMAIN sugg.usages)

\* C7: with caller = user_id and a successful suggestion the response is 200
\* and lists, in the order of new_words, one entry per suggested word that has
\* a usage (id "new_" + word, the caller's user_id, translation and example of
\* that usage), omitting the words without one; with no usage at all the
\* response is 200 with an empty list.
C7_NewWords ==
    (nw_last.caller = nw_last.user_id /\ nw_last.sugg.kind = "ok") =>
        LET sugg == nw_last.sugg
            body == nw_last.body
            want == with_usage(sugg)
        IN  /\ nw_last.status = 200
            /\ Len(body) = Len(want)
            /\ \A i \in 1..Len(want) :
                  /\ body[i].word = want[i]
                  /\ body[i].id = "new_" \o want[i]
                  /\ body[i].user_id = nw_last.caller
                  /\ body[i].translation = sugg.usages[want[i]].translation
                  /\ body[i].example = sugg.usages[want[i]].fr
            /\ (DOMAIN sugg.usages = {} => body = <<>>)

\* a suggestion of two words of which only the second has a usage
C7_Witness ==
    /\ nw_last.status = 200
    /\ nw_last.sugg.kind = "ok"
    /\ Len(nw_last.sugg.new_words) = 2
    /\ nw_last.sugg.new_words[1] \notin DOMAIN nw_last.sugg.usages
    /\ Len(nw_last.body) = 1
    /\ nw_last.body[1].id = "new_" \o nw_last.sugg.new_words[2]
----------------------------------------------------------------------------
(* POST /dialogue: chat_with_ai, run_dialogue_turn, get_dialogue_response  *)
(*                                                                         *)
(* Each request is handled by a task.  Tasks switch only at await points:  *)
(* running names the task that holds the event loop between two awaits.    *)
(* The only suspension of a dialogue request is the agent run              *)
(* (llm_service.py line 67).                                               *)

\* json.dumps(words, ensure_ascii=False) of a list of strings
RECURSIVE json_items(_, _)
json_items(words, i) ==
    IF i > Len(words) THEN ""
    ELSE "\"" \o words[i] \o "\""
         \o (IF i < Len(words) THEN ", " ELSE "")
         \o json_items(words, i + 1)

json_dumps(words) == "[" \o json_items(words, 1) \o "]"

\* DIALOGUE_AGENT_PROMPT.format(known_words=..., new_words=...)
format_prompt(known_words, new_words) ==
    "known_words=" \o json_dumps(known_words)
        \o " new_words=" \o json_dumps(new_words)

\* a DialogueSession as the registry creates it
EmptySession ==
    [exists |-> FALSE, dialogue_agent |-> "None", message_history |-> <<>>]

\* get_session(user_id): get-or-create
get_session(ss, user_id) == [ss EXCEPT ![user_id].exists = TRUE]

\* variant: an agent is created on every call, whether or not one is stored
get_dialogue_response_always_create(ss, user_id, known_words, new_words, create_raises) ==
    LET ss1 == get_session(ss, user_id)
        prompt == format_prompt(known_words, new_words)
    IN  IF create_raises
        THEN [sessions |-> ss1, agent |-> "None", raised |-> TRUE, made |-> FALSE]
        ELSE [sessions |-> [ss1 EXCEPT ![user_id].dialogue_agent = prompt],
              agent |-> prompt, raised |-> FALSE, made |-> TRUE]

\* get_dialogue_response up to its await (lines 54-66): the session state
\* after it, the agent it is about to run, whether create_dialogue_agent
\* raised, and whether an agent was created
get_dialogue_response_enter(ss, user_id, known_words, new_words, create_raises) ==
    LET ss1 == get_session(ss, user_id)
        dialogue_agent == ss1[user_id].dialogue_agent
        prompt == format_prompt(known_words, new_words)
    IN  IF dialogue_agent = "None"
        THEN IF create_raises
             THEN [sessions |-> ss1, agent |-> "None", raised |-> TRUE, made |-> FALSE]
             ELSE [sessions |-> [ss1 EXCEPT ![user_id].dialogue_agent = prompt],
                   agent |-> prompt, raised |-> FALSE, made |-> TRUE]
        ELSE [sessions |-> ss1, agent |-> dialogue_agent, raised |-> FALSE, made |-> FALSE]

\* variant: the agent is run on the session's stored history, not on the
\* dialogue_history argument
get_dialogue_response_live_history(ss, tk) ==
    [sessions |-> ss,
     output |-> "Bonjour !",
     all_messages |-> ss[tk.user_id].message_history \o <<tk.turn>>]

\* variant: the returned history is also assigned to the session
get_dialogue_response_assigns_history(ss, tk) ==
    [sessions |-> [ss EXCEPT ![tk.user_id].message_history =
                                  tk.dialogue_history \o <<tk.turn>>],
     output |-> "Bonjour !",
     all_messages |-> tk.dialogue_history \o <<tk.turn>>]

\* get_dialogue_response from its await on (lines 67-72), the run succeeding:
\* result.output and result.all_messages(), the history passed in followed by
\* the messages of this turn; the session state is not written
get_dialogue_response_return(ss, tk) ==
    [sessions |-> ss,
     output |-> "Bonjour !",
     all_messages |-> tk.dialogue_history \o <<tk.turn>>]

\* variant: the inner try/except around the suggestion is missing
chat_with_ai_no_fallback(output, sugg, words) ==
    IF sugg = "suggestion"
    THEN [status |-> 200, response |-> output, suggested_words |-> words]
    ELSE [status |-> 500, response |-> "", suggested_words |-> <<>>]

\* chat_with_ai after run_dialogue_turn has returned (lines 105-116).  sugg is
\* what the call suggest_new_words_for_user(message.user_id), which is not
\* awaited, gives: it raises, it returns a coroutine (reading .new_words of
\* it raises AttributeError), or it returns a suggestion with new_words.
\* words_service is not part of the sources; line 127 awaits the same
\* function, and then "coroutine" is the outcome.
chat_with_ai_respond(output, sugg, words) ==
    [status |-> 200,
     response |-> output,
     suggested_words |-> IF sugg = "suggestion" THEN words ELSE <<>>]

Tasks == {"t1", "t2"}
KnownLists == {<<>>, <<"chat">>}
NewLists == {<<"lait">>, <<"lait", "pain">>}
SuggestOutcomes == {"raises", "coroutine", "suggestion"}
SuggestedLists == {<<"lait", "pain">>}

IdleTask ==
    [pc |-> "idle", caller |-> "", user_id |-> "", known_words |-> <<>>,
     new_words |-> <<>>, dialogue_history |-> <<>>, turn |-> 0,
     agent |-> "None", all_messages |-> <<>>, output |-> "",
     status |-> 0, error |-> "", response |-> "", sugg |-> "",
     suggested_words |-> <<>>]

\* the request arrives and is handled up to its first suspension
ChatWithAi(t) ==
    /\ running = "none"
    /\ task[t].pc \in {"idle", "done"}
    /\ \E caller \in Users, user_id \in Users :
         IF caller # user_id
         THEN \* line 95: 403 before anything is called
              /\ task' = [task EXCEPT ![t] =
                    [IdleTask EXCEPT !.pc = "done", !.caller = caller,
                                     !.user_id = user_id, !.status = 403]]
              /\ UNCHANGED <<sessions, running, nturns, agents_made>>
         ELSE \* run_dialogue_turn: read the session's history, then call
              \* get_dialogue_response with it
              /\ nturns < MaxTurns
              /\ \E known_words \in KnownLists, new_words \in NewLists,
                    create_raises \in BOOLEAN :
                   LET history == get_session(sessions, user_id)[user_id].message_history
                       r == get_dialogue_response_enter(
                              sessions, user_id, known_words, new_words, create_raises)
                       call == [IdleTask EXCEPT
                                  !.caller = caller, !.user_id = user_id,
                                  !.known_words = known_words,
                                  !.new_words = new_words,
                                  !.dialogue_history = history,
                                  !.turn = nturns + 1,
                                  !.agent = r.agent]
                   IN  \* create_dialogue_agent is only called when no agent is stored
                       /\ (create_raises => sessions[user_id].dialogue_agent = "None")
                       /\ sessions' = r.sessions
                       /\ agents_made' = [agents_made EXCEPT ![user_id] =
                                            IF r.made THEN @ + 1 ELSE @]
                       /\ nturns' = nturns + 1
                       /\ task' = [task EXCEPT ![t] =
                             IF r.raised
                             THEN \* line 74-75, then chat_with_ai line 117-118
                                  [IdleTask EXCEPT
                                     !.pc = "done", !.caller = caller,
                                     !.user_id = user_id, !.turn = nturns + 1,
                                     !.status = 500, !.error = "RuntimeError"]
                             ELSE [call EXCEPT !.pc = "awaiting"]]
                       /\ UNCHANGED running

\* the agent run completes: get_dialogue_response returns
AgentRunReturns(t) ==
    /\ running = "none"
    /\ task[t].pc = "awaiting"
    /\ LET r == get_dialogue_response_return(sessions, task[t])
       IN  /\ sessions' = r.sessions
           \* the call's arguments and locals end with the call
           /\ task' = [task EXCEPT ![t] =
                 [IdleTask EXCEPT !.pc = "returned",
                                  !.caller = task[t].caller,
                                  !.user_id = task[t].user_id,
                                  !.turn = task[t].turn,
                                  !.dialogue_history = task[t].dialogue_history,
                                  !.output = r.output,
                                  !.all_messages = r.all_messages]]
    /\ running' = t
    /\ UNCHANGED <<nturns, agents_made>>

\* the agent run raises: RuntimeError (lines 74-75), which chat_with_ai
\* turns into a 500 (lines 117-118)
AgentRunRaises(t) ==
    /\ running = "none"
    /\ task[t].pc = "awaiting"
    /\ task' = [task EXCEPT ![t] =
          [IdleTask EXCEPT !.pc = "done",
                           !.caller = task[t].caller,
                           !.user_id = task[t].user_id,
                           !.turn = task[t].turn,
                           !.status = 500,
                           !.error = "RuntimeError"]]
    /\ UNCHANGED <<sessions, running, nturns, agents_made>>

\* run_dialogue_turn stores the returned history in the session
PersistHistory(t) ==
    /\ running = t
    /\ task[t].pc = "returned"
    /\ sessions' = [sessions EXCEPT
                      ![task[t].user_id].message_history = task[t].all_messages]
    /\ task' = [task EXCEPT ![t].pc = "persisted", ![t].all_messages = <<>>,
                            ![t].dialogue_history = <<>>]
    /\ UNCHANGED <<running, nturns, agents_made>>

\* chat_with_ai builds the DialogueResponse
Respond(t) ==
    /\ running = t
    /\ task[t].pc = "persisted"
    /\ \E sugg \in SuggestOutcomes, words \in SuggestedLists :
         LET o == chat_with_ai_respond(task[t].output, sugg, words)
         IN  task' = [task EXCEPT ![t].pc = "done",
                                  ![t].status = o.status,
                                  ![t].response = o.response,
                                  ![t].sugg = sugg,
                                  ![t].suggested_words = o.suggested_words]
    /\ running' = "none"
    /\ UNCHANGED <<sessions, nturns, agents_made>>

InitDialogue ==
    /\ sessions = [u \in Users |-> EmptySession]
    /\ task = [t \in Tasks |-> IdleTask]
    /\ running = "none"
    /\ nturns = 0
    /\ agents_made = [u \in Users |-> 0]

NextDialogue ==
    \/ \E t \in Tasks : ChatWithAi(t) /\ UNCHANGED <<wordVars, nw_last>>
    \/ \E t \in Tasks : AgentRunReturns(t) /\ UNCHANGED <<wordVars, nw_last>>
    \/ \E t \in Tasks : AgentRunRaises(t) /\ UNCHANGED <<wordVars, nw_last>>
    \/ \E t \in Tasks : PersistHistory(t) /\ UNCHANGED <<wordVars, nw_last>>
    \/ \E t \in Tasks : Respond(t) /\ UNCHANGED <<wordVars, nw_last>>

Init == InitWords /\ InitNewWords /\ InitDialogue

SpecWords == Init /\ [][NextWords]_vars

SpecNewWords == Init /\ [][NextNewWords]_vars

SpecDialogue == Init /\ [][NextDialogue]_vars

Next == NextWords \/ NextNewWords \/ NextDialogue

Spec == Init /\ [][Next]_vars

----------------------------------------------------------------------------
(* Claims about the words endpoints, checked under SpecWords.  Every step  *)
(* of SpecWords is one request, recorded in last'.                         *)

owner_differs(s, word_id, caller) ==
    \E w \in s : w.id = word_id /\ w.user_id # caller

created_by(u) == {c.id : c \in {x \in created : x.user_id = u}}

\* C1: a request authenticated as A never returns, creates, modifies or
\* removes a word whose user_id is another user B: B's stored words are the
\* same after the request as before it.
C1_UserIsolation ==
    [][\A B \in Users : B # last'.caller =>
          /\ get_user_words(store', B) = get_user_words(store, B)
          /\ (last'.status = 200 => \A w \in last'.body : w.user_id # B)]_vars

\* C2 as claimed, for requests whose store calls do not raise: POST /words
\* for another user, and PUT and DELETE of an existing word owned by another
\* user, each respond 403.
C2_AlwaysForbidden ==
    [][~last'.raised =>
         /\ (last'.op = "POST" /\ last'.user_id # last'.caller)
              => last'.status = 403
         /\ (last'.op \in {"PUT", "DELETE"}
               /\ owner_differs(store, last'.word_id, last'.caller))
              => last'.status = 403]_vars

\* C2 amended: POST /words for another user responds 403; PUT of an existing
\* word owned by another user responds 403 unless the store call raises
\* (then 500); DELETE of an existing word owned by another user responds 404
\* unless the store call raises (then 500), and leaves the store unchanged.
\* None of the three responds 200.
C2_ForbiddenOrNotFound ==
    [][/\ (last'.op = "POST" /\ last'.user_id # last'.caller)
            => last'.status = 403
       /\ (last'.op = "PUT" /\ owner_differs(store, last'.word_id, last'.caller))
            => last'.status = (IF last'.raised THEN 500 ELSE 403)
       /\ (last'.op = "DELETE" /\ owner_differs(store, last'.word_id, last'.caller))
            => /\ last'.status = (IF last'.raised THEN 500 ELSE 404)
               /\ store' = store]_vars

\* a DELETE of another user's existing word was answered 404, and the word
\* is still stored
C2_Witness ==
    /\ last.op = "DELETE"
    /\ last.status = 404
    /\ owner_differs(store, last.word_id, last.caller)

\* C3: a request that ends in 403 has performed no mutating store call.
C3_ForbiddenBeforeDelegation ==
    [][last'.status = 403 => store' = store]_vars

\* C4: DELETE of a word id that is not in the store returns 404 and leaves
\* the store unchanged, provided the store calls do not raise.
C4_DeleteMissingIs404 ==
    [][(last'.op = "DELETE" /\ by_id(store, last'.word_id) = {} /\ ~last'.raised)
          => (last'.status = 404 /\ store' = store)]_vars

\* a DELETE of an id that had been deleted before was answered 404
C4_Witness ==
    /\ last.op = "DELETE"
    /\ last.status = 404
    /\ ~last.raised
    /\ last.word_id \in deleted

\* the words GET /words/u lists are exactly those u created and nobody deleted
C5_Listed ==
    /\ \A u \in Users :
          {w.id : w \in get_user_words(store, u)} = created_by(u) \ deleted
    /\ (last.op = "GET" /\ last.status = 200) =>
          /\ {w.id : w \in last.body} = created_by(last.user_id) \ deleted
          /\ \A w \in last.body : w.user_id = last.user_id
    /\ (last.op = "POST" /\ last.status = 200) =>
          \A w \in last.body : w \in get_user_words(store, last.caller)

\* C5: for every user u, GET /words/u returns exactly the words u created
\* that have not been successfully deleted; a created word is stored under
\* its generated id; a DELETE of an id that was already successfully deleted
\* returns 404 (500 only if the store call raises), never 200.
C5_CreateListDelete ==
    /\ []C5_Listed
    /\ [][(last'.op = "DELETE" /\ last'.word_id \in deleted)
            => last'.status = (IF last'.raised THEN 500 ELSE 404)]_vars

\* u created a word, deleted it, deleted it again (404) and then listed
\* the words, which no longer include it
C5_Witness ==
    /\ last.op = "GET"
    /\ last.status = 200
    /\ created_by(last.user_id) \cap deleted # {}
    /\ created_by(last.user_id) \ deleted # {}
    /\ {w.id : w \in last.body} = created_by(last.user_id) \ deleted

----------------------------------------------------------------------------
(* Claims about POST /dialogue, checked under SpecDialogue.  Every step of *)
(* SpecDialogue changes the record of exactly one task.                    *)

elements(seq) == {seq[i] : i \in 1..Len(seq)}

\* C6 as claimed: POST /dialogue with caller = body.user_id always returns a
\* response with status 200.
C6_AlwaysReturns ==
    \A t \in Tasks :
        (task[t].pc = "done" /\ task[t].caller = task[t].user_id)
            => task[t].status = 200

\* C6 amended: POST /dialogue with caller = body.user_id whose dialogue turn
\* does not fail returns 200 with the reply and a suggested_words list, also
\* when the suggestion sub-call fails: then the list is empty.  A failure of
\* the dialogue turn itself is answered 500.
C6_ReturnsUnlessTurnFails ==
    \A t \in Tasks :
        (task[t].pc = "done" /\ task[t].caller = task[t].user_id) =>
            IF task[t].error = ""
            THEN /\ task[t].status = 200
                 /\ task[t].response = "Bonjour !"
                 /\ task[t].sugg \in SuggestOutcomes
                 /\ task[t].sugg # "suggestion" => task[t].suggested_words = <<>>
                 /\ task[t].sugg = "suggestion" => task[t].suggested_words \in SuggestedLists
            ELSE task[t].status = 500

\* a dialogue request whose suggestion sub-call raised was answered 200 with
\* the reply and an empty list
C6_Witness ==
    \E t \in Tasks :
        /\ task[t].pc = "done"
        /\ task[t].sugg = "raises"
        /\ task[t].status = 200
        /\ task[t].response = "Bonjour !"
        /\ task[t].suggested_words = <<>>

\* C8: for each user create_dialogue_agent succeeds at most once; a call that
\* finds an agent stored runs that agent; the stored agent never changes, and
\* its prompt is the one formatted from the word lists of the call that
\* created it.
C8_SingleCreation ==
    /\ [](\A u \in Users : agents_made[u] <= 1)
    /\ [](\A t \in Tasks : task[t].pc = "awaiting" =>
              /\ task[t].agent # "None"
              /\ task[t].agent = sessions[task[t].user_id].dialogue_agent)
    /\ [][\A u \in Users :
            /\ sessions[u].dialogue_agent # "None"
                 => sessions'[u].dialogue_agent = sessions[u].dialogue_agent
            /\ (sessions[u].dialogue_agent = "None"
                  /\ sessions'[u].dialogue_agent # "None")
                 => \E t \in Tasks :
                       /\ task[t].pc # "awaiting"
                       /\ task'[t].pc = "awaiting"
                       /\ task'[t].user_id = u
                       /\ sessions'[u].dialogue_agent =
                            format_prompt(task'[t].known_words, task'[t].new_words)]_vars

\* a later call for the same user passes other word lists and still runs the
\* agent made by the first call
C8_Witness ==
    \E t \in Tasks :
        /\ task[t].pc = "awaiting"
        /\ agents_made[task[t].user_id] = 1
        /\ task[t].agent = sessions[task[t].user_id].dialogue_agent
        /\ task[t].agent # format_prompt(task[t].known_words, task[t].new_words)

\* C9: a turn that persists its history overwrites the session's history with
\* the history it read before the agent run followed by its own turn, whatever
\* was stored meanwhile (last writer wins); a session changes only in a step
\* of a turn for that session's user.
C9_LastWriterWins ==
    [][/\ \A u \in Users : sessions'[u] # sessions[u] =>
             \E t \in Tasks : task'[t] # task[t] /\ task'[t].user_id = u
       /\ \A t \in Tasks :
             (task[t].pc = "returned" /\ task'[t].pc = "persisted") =>
                 sessions'[task[t].user_id].message_history =
                     task[t].dialogue_history \o <<task[t].turn>>]_vars

\* two turns of one user have both been answered 200 and the stored history
\* holds only one of them
C9_LostUpdate ==
    \E t1 \in Tasks, t2 \in Tasks :
        /\ t1 # t2
        /\ task[t1].pc = "done" /\ task[t1].status = 200
        /\ task[t2].pc = "done" /\ task[t2].status = 200
        /\ task[t1].user_id = task[t2].user_id
        /\ task[t1].turn \notin elements(sessions[task[t1].user_id].message_history)
        /\ task[t2].turn \in elements(sessions[task[t1].user_id].message_history)

\* C10: a step of get_dialogue_response for user u (every step of a turn but
\* the caller's persisting of the history) leaves every other user's session
\* and u's message_history as they are, and writes u's dialogue_agent only
\* when none was stored; a failing call ends in a RuntimeError, and a failing
\* agent run changes no session at all.
C10_Frame ==
    [][\A t \in Tasks :
          (task'[t] # task[t] /\ task[t].pc # "returned") =>
              LET u == task'[t].user_id
              IN  /\ \A v \in Users \ {u} : sessions'[v] = sessions[v]
                  /\ sessions'[u].message_history = sessions[u].message_history
                  /\ sessions[u].dialogue_agent # "None"
                       => sessions'[u].dialogue_agent = sessions[u].dialogue_agent
                  /\ (task[t].pc = "awaiting" /\ task'[t].pc = "done")
                       => (task'[t].error = "RuntimeError" /\ sessions' = sessions)
                  /\ (task'[t].pc = "done" /\ task'[t].status = 500)
                       => task'[t].error = "RuntimeError"]_vars

\* the first call for a user created the agent, its run then failed: the
\* agent is stored and the history is still empty
C10_Witness ==
    \E t \in Tasks :
        /\ task[t].pc = "done"
        /\ task[t].error = "RuntimeError"
        /\ task[t].turn = 1
        /\ nturns = 1
        /\ sessions[task[t].user_id].dialogue_agent # "None"
        /\ sessions[task[t].user_id].message_history = <<>>

====
